---- MODULE Spec2Model ----
(***************************************************************************)
(* ykcoda/rag_agent: the SharePoint -> Chroma ingestion and sync pipeline. *)
(*                                                                         *)
(* The remote library (files, change journal), the three durable local     *)
(* artefacts (the Chroma collection, the delta-token file, the ingest      *)
(* cache file) and one orchestrator at a time (run_ingest or run_sync),    *)
(* stepped at every call that has an effect or that can fail.              *)
(***************************************************************************)
EXTENDS Integers, Sequences, FiniteSets, Bags, TLC

\* ------------------------------------------------------------------ bounds

\* Content versions a remote file goes through.
MaxVer == 2
\* Remote changes (entries of the change journal).
MaxChanges == 2
\* Items per page of the change feed (chosen by the server).
PageSize == 1
\* Steps at which a call fails (an exception, raised or swallowed, or a kill).
MaxFaults == 2

\* vectorstore.py:81 and ingest.py:90 set batch_size = 500; the model keeps
\* the loop and scales the number so that a run has more than one batch.
batch_size == 2

\* sync.py:89 sets interval_secs = SYNC_INTERVAL_HOURS * 3600; the model
\* counts the sleep in ticks.
interval_secs == 2
\* The longest list a function is called with on its own.
MaxLen == 3
\* The longest chunk list that is cut into batches on its own.
MaxDocs == 5

\* ------------------------------------------------------------- the remote

Items == {"a", "b"}

\* Paths are sequences of characters, so that a prefix test is a test on
\* characters as str.startswith is.
PathP == <<"P">>
PathPO == <<"P", "O">>
PathPS == <<"P", "/", "S">>
PathH == <<"H">>
\* The folders a file can be in (the empty path is the library root), and
\* the values of SP_SCAN_FOLDERS.
ScopePaths == {<<>>, PathP, PathPS, PathPO, PathH}
Scopes == {<<>>, <<PathP>>, <<PathPO>>, <<PathPS>>, <<PathP, PathH>>,
           <<PathP, PathPS>>}

\* File name suffixes: Path(name).suffix.lower()
Exts == {".pdf", ".txt"}

\* loader.py:22
SUPPORTED_EXTENSIONS == {".pdf", ".doc", ".docx", ".xlsx"}

\* loader.py:4, the module's docstring: "Supported formats: ..."
DocumentedExtensions == {".pdf", ".docx", ".txt", ".md", ".xlsx"}

\* The number of chunks the splitter makes of a file's content.
NumChunks(id, ver) == IF id = "a" THEN ver ELSE 1

\* A chunk: the text is decided by (id, ver, k); name and folder_path are
\* the metadata the item carries.
Chunk(id, ver, k, name, folder_path) ==
    [id |-> id, ver |-> ver, k |-> k, ext |-> name, path |-> folder_path]

NoCursor == [kind |-> "none", pos |-> 0, off |-> 0]
\* The cache file: missing, opened for writing and not yet dumped, or whole.
NoFile == [state |-> "nofile", docs |-> <<>>]
Partial == [state |-> "partial", docs |-> <<>>]
Cached(d) == [state |-> "whole", docs |-> d]

NoOutcome == [op |-> "none", kind |-> "none", at |-> "idle", val |-> 0]
\* No second run_sync, and no function called on its own.
NoManual == [pc |-> "off", items |-> <<>>, deleted |-> <<>>, delta_link |-> NoCursor,
             docs |-> <<>>, bi |-> 0, processed |-> 0]
NoCall == [name |-> "none"]

VARIABLES
    remote,        \* id -> [exists, ver, ext, path]: the library's files
    log,           \* the change journal: items in the order the feed reports them
    scan_folders,  \* config.SP_SCAN_FOLDERS
    store,         \* the Chroma collection: a bag of chunks
    cursorFile,    \* DELTA_TOKEN_PATH: NoCursor when the file is missing
    cacheFile,     \* ingest_cache.pkl: NoFile, Partial or the pickled docs
    pc,            \* where the running orchestrator is
    items,         \* run_ingest: items; run_sync: new_or_modified
    deleted,       \* run_sync: deleted
    delta_link,    \* the cursor get_delta returned
    pagesRead,     \* pages the last get_delta read
    docs,          \* the chunks loaded
    bi,            \* the batch loop's i
    processed,     \* run_sync: processed
    fromCache,     \* run_ingest: the docs came from the cache file
    outcome,       \* how the last run ended
    track,         \* whether the two history variables are kept
    startLog,      \* history: the journal's length when the run started
    prev,          \* history: the full ingestion that returned last
    faults,        \* steps at which a call failed
    sched,         \* run_scheduler: "off" when it is not running, else where it is
    timer,         \* run_scheduler: what is left of time.sleep(interval_secs)
    chain,         \* rag/chain.py _chain: "none" or "built"
    manual,        \* a second run_sync, started by hand while the first one runs
    fn             \* the last call of a function on its own: its arguments and result
vars == <<remote, log, scan_folders, store, cursorFile, cacheFile, pc, items,
          deleted, delta_link, pagesRead, docs, bi, processed, fromCache, outcome,
          track, startLog, prev, faults, sched, timer, chain, manual, fn>>

remoteVars == <<remote, log, scan_folders, track>>
diskVars == <<store, cursorFile, cacheFile>>
schedVars == <<sched, timer>>
auxVars == <<manual, fn>>
localVars == <<items, deleted, delta_link, pagesRead, docs, bi, processed, fromCache>>

\* ------------------------------------------------------------- sequences

Min(x, y) == IF x < y THEN x ELSE y

StartsWith(s, t) == Len(t) <= Len(s) /\ SubSeq(s, 1, Len(t)) = t

RECURSIVE LStrip(_, _)
LStrip(s, ch) == IF s # <<>> /\ Head(s) = ch THEN LStrip(Tail(s), ch) ELSE s

RECURSIVE SeqToBag(_)
SeqToBag(s) == IF s = <<>> THEN EmptyBag ELSE SetToBag({Head(s)}) (+) SeqToBag(Tail(s))

RECURSIVE Flatten(_)
Flatten(ss) == IF ss = <<>> THEN <<>> ELSE Head(ss) \o Flatten(Tail(ss))

\* The sequences that list each element of a finite set once.
Orders(S) == {q \in [1..Cardinality(S) -> S] : \A x \in S : \E j \in DOMAIN q : q[j] = x}

\* Items in the order the server walks them.
IdOrder == <<"a", "b">>

\* --------------------------------------------------- sharepoint/client.py

\* parentReference.path of an item whose folder is p: "/drives/{id}/root:"
\* (one token here) followed by "/" and the folder's path.
ParentRef(p) == <<"/root:">> \o (IF p = <<>> THEN <<>> ELSE <<"/">> \o p)

\* The item the server reports for a file in state r.
ItemOf(id, r, del) ==
    [id |-> id, deleted |-> del, ext |-> r.ext, etag |-> r.ver,
     path |-> ParentRef(r.path)]

FileItem(id) == ItemOf(id, remote[id], FALSE)

\* parent_path.split("/root:", 1)[-1].lstrip("/")
SplitLast(s) ==
    LET hits == {j \in DOMAIN s : s[j] = "/root:"}
    IN  IF hits = {} THEN s
        ELSE LET first == CHOOSE j \in hits : \A h \in hits : j <= h
             IN  SubSeq(s, first + 1, Len(s))

AfterRoot(parent_path) == LStrip(SplitLast(parent_path), "/")

\* A slip: a prefix test on characters, so that PO lies in P.
is_in_scan_folders_substring(item) ==
    IF scan_folders = <<>> THEN TRUE
    ELSE LET after_root == AfterRoot(item.path)
         IN \E j \in DOMAIN scan_folders : StartsWith(after_root, scan_folders[j])

is_in_scan_folders(item) ==
    IF scan_folders = <<>> THEN TRUE
    ELSE LET after_root == AfterRoot(item.path)
         IN \E j \in DOMAIN scan_folders :
                \/ after_root = scan_folders[j]
                \/ StartsWith(after_root, scan_folders[j] \o <<"/">>)

\* _iter_folder on root:/{folder}:/children: the files in the folder and in
\* its sub-folders, as the server's tree holds them.
InTree(p, folder) ==
    folder = <<>> \/ p = folder
    \/ (Len(p) > Len(folder) /\ SubSeq(p, 1, Len(folder)) = folder
        /\ p[Len(folder) + 1] = "/")

iter_folder(folder) ==
    LET here(id) == remote[id].exists /\ InTree(remote[id].path, folder)
    IN  Flatten([j \in DOMAIN IdOrder |->
                    IF here(IdOrder[j]) THEN <<FileItem(IdOrder[j])>> ELSE <<>>])

\* A slip: the whole drive is listed whatever SP_SCAN_FOLDERS says.
list_all_files_unscoped(failed) == iter_folder(<<>>)

\* list_all_files when the scans of the folders in `failed` (indexes of
\* SP_SCAN_FOLDERS) raise: each is logged and skipped.
list_all_files(failed) ==
    IF scan_folders # <<>>
    THEN Flatten([j \in DOMAIN scan_folders |->
                    IF j \in failed THEN <<>> ELSE iter_folder(scan_folders[j])])
    ELSE iter_folder(<<>>)

\* A folder path and the folders above it.
FolderPrefixes(p) ==
    {SubSeq(p, 1, n) : n \in {h \in 1..Len(p) : h = Len(p) \/ p[h + 1] = "/"}}

\* The folders _iter_folder requests when it walks from folder: the folder
\* and every folder below it that leads to a file.
Walked(folder) ==
    {folder} \cup
    {q \in UNION {FolderPrefixes(remote[id].path) : id \in {i \in Items : remote[i].exists}} :
        InTree(q, folder)}

\* The folders a listing requests.
ScanTargets ==
    IF scan_folders # <<>>
    THEN UNION {Walked(scan_folders[j]) : j \in DOMAIN scan_folders}
    ELSE Walked(<<>>)

\* A slip: one failed request ends the listing, whatever the scope.
list_all_files_abort(bad) ==
    IF ScanTargets \cap bad # {}
    THEN [raised |-> TRUE, files |-> <<>>]
    ELSE [raised |-> FALSE, files |-> list_all_files({})]

\* list_all_files when the requests for the folders in bad raise. The
\* exception leaves list(self._iter_folder(url)): with SP_SCAN_FOLDERS set it
\* is caught per configured folder (lines 134-141), whose files are all
\* dropped; without, it leaves list_all_files (line 150).
list_all_files_result(bad) ==
    IF scan_folders # <<>>
    THEN [raised |-> FALSE,
          files |-> list_all_files({j \in DOMAIN scan_folders :
                                       Walked(scan_folders[j]) \cap bad # {}})]
    ELSE IF Walked(<<>>) \cap bad # {}
         THEN [raised |-> TRUE, files |-> <<>>]
         ELSE [raised |-> FALSE, files |-> iter_folder(<<>>)]

\* _load_delta_token
load_delta_token == cursorFile

RootDelta == [kind |-> "root", pos |-> 0, off |-> 0]

\* What the feed at url enumerates: every current item from the root URL,
\* the journal after the token otherwise.
FeedList(url) ==
    IF url.kind = "root" \/ (url.kind = "next" /\ url.pos = -1)
    THEN iter_folder(<<>>)
    ELSE SubSeq(log, url.pos + 1, Len(log))

\* One page of the feed: its items, and @odata.nextLink or @odata.deltaLink.
\* hasLink: whether the last page carries its deltaLink.
Page(url, hasLink) ==
    LET list == FeedList(url)
        more == url.off + PageSize < Len(list)
    IN  [value |-> SubSeq(list, url.off + 1, Min(url.off + PageSize, Len(list))),
         nextLink |-> IF more
                      THEN [kind |-> "next",
                            pos |-> IF url.kind = "root" THEN -1 ELSE url.pos,
                            off |-> url.off + PageSize]
                      ELSE NoCursor,
         deltaLink |-> IF ~more /\ hasLink
                       THEN [kind |-> "delta", pos |-> Len(log), off |-> 0]
                       ELSE NoCursor]

\* delta_link = data.get("@odata.deltaLink", delta_link)
\* A slip: the first link seen is kept, a page's nextLink included.
NextDeltaLinkFirst(data, link) ==
    IF link # NoCursor THEN link
    ELSE IF data.deltaLink # NoCursor THEN data.deltaLink ELSE data.nextLink

NextDeltaLink(data, link) ==
    IF data.deltaLink # NoCursor THEN data.deltaLink ELSE link

\* The while loop of get_delta from url on.
RECURSIVE get_delta_loop(_, _, _)
get_delta_loop(url, hasLink, acc) ==
    IF url = NoCursor THEN acc
    ELSE LET data == Page(url, hasLink)
             keep(del) == SelectSeq(data.value,
                              LAMBDA it : it.deleted = del /\ is_in_scan_folders(it))
         IN  get_delta_loop(data.nextLink, hasLink,
                 [new_or_modified |-> acc.new_or_modified \o keep(FALSE),
                  deleted |-> acc.deleted \o keep(TRUE),
                  delta_link |-> NextDeltaLink(data, acc.delta_link),
                  pages |-> acc.pages + 1])

get_delta(hasLink) ==
    LET saved_link == load_delta_token
        url == IF saved_link # NoCursor THEN saved_link ELSE RootDelta
    IN  get_delta_loop(url, hasLink,
            [new_or_modified |-> <<>>, deleted |-> <<>>,
             delta_link |-> NoCursor, pages |-> 0])

\* ------------------------- sharepoint/client.py, the text of the cursor file

\* A cursor is a string, a text is the content of a file: sequences of
\* characters. The quote and the backslash are the characters JSON escapes;
\* "u" stands for any other one, and the one element "delta_link" for the
\* quoted key.
NoText == <<"no file">>

\* json.dumps of a string, without its quotes.
RECURSIVE json_escape(_)
json_escape(c) ==
    IF c = <<>> THEN <<>>
    ELSE (IF Head(c) \in {"\"", "\\"} THEN <<"\\", Head(c)>> ELSE <<Head(c)>>)
         \o json_escape(Tail(c))

\* A slip: the text is made with string formatting, the cursor not escaped.
save_delta_token_raw(c) == <<"{", "delta_link", ":", "\"">> \o c \o <<"\"", "}">>

\* save_delta_token(delta_link): json.dumps({"delta_link": delta_link})
save_delta_token(c) == <<"{", "delta_link", ":", "\"">> \o json_escape(c) \o <<"\"", "}">>

\* The JSON parser on a string literal after its opening quote: the value,
\* and what follows the closing quote.
RECURSIVE json_string(_, _)
json_string(t, acc) ==
    IF t = <<>> THEN [ok |-> FALSE, val |-> <<>>, rest |-> <<>>]
    ELSE IF Head(t) = "\"" THEN [ok |-> TRUE, val |-> acc, rest |-> Tail(t)]
    ELSE IF Head(t) = "\\"
         THEN IF Len(t) >= 2 /\ t[2] \in {"\"", "\\"}
              THEN json_string(Tail(Tail(t)), Append(acc, t[2]))
              ELSE [ok |-> FALSE, val |-> <<>>, rest |-> <<>>]
    ELSE json_string(Tail(t), Append(acc, Head(t)))

\* json.loads(text): an object with the key, the empty object, a string, or
\* a ValueError.
json_loads(text) ==
    LET fail == [ok |-> FALSE, object |-> FALSE, has |-> FALSE, val |-> <<>>]
    IN  IF text = <<"{", "}">>
        THEN [ok |-> TRUE, object |-> TRUE, has |-> FALSE, val |-> <<>>]
        ELSE IF Len(text) >= 4 /\ SubSeq(text, 1, 4) = <<"{", "delta_link", ":", "\"">>
        THEN LET r == json_string(SubSeq(text, 5, Len(text)), <<>>)
             IN  IF r.ok /\ r.rest = <<"}">>
                 THEN [ok |-> TRUE, object |-> TRUE, has |-> TRUE, val |-> r.val]
                 ELSE fail
        ELSE IF text # <<>> /\ Head(text) = "\""
        THEN LET r == json_string(Tail(text), <<>>)
             IN  IF r.ok /\ r.rest = <<>>
                 THEN [ok |-> TRUE, object |-> FALSE, has |-> FALSE, val |-> r.val]
                 ELSE fail
        ELSE fail

\* _load_delta_token(): "" when the file is missing; json.loads(...).get(
\* "delta_link", "") otherwise, and "" again for whatever that raises: the
\* ValueError of the parser, the AttributeError of a value that has no get.
load_delta_token_text(file) ==
    IF file = NoText THEN <<>>
    ELSE LET v == json_loads(file)
         IN  IF ~v.ok \/ ~v.object THEN <<>>
             ELSE IF v.has THEN v.val ELSE <<>>

\* get_delta line 186: saved_link or f"{GRAPH_BASE}/drives/{drive_id}/root/delta"
start_url(saved_link) == IF saved_link # <<>> THEN saved_link ELSE <<"root/delta">>

\* --------------------------------------------------- sharepoint/loader.py

\* file_to_documents(item, content), content being version ver of the file.
file_to_documents(item, ver) ==
    IF item.ext \notin SUPPORTED_EXTENSIONS THEN <<>>
    ELSE [k \in 1..NumChunks(item.id, ver) |->
             Chunk(item.id, ver, k, item.ext, AfterRoot(item.path))]

\* The files of its whose download or parse can fail: download_file raises
\* for a file that is gone, and may raise for any other.
Downloaded(its) == {j \in DOMAIN its : its[j].ext \in SUPPORTED_EXTENSIONS}
MustFail(its) == {j \in Downloaded(its) : ~remote[its[j].id].exists}

\* A slip: the first file that fails ends the loop, as a break in the except
\* clause would.
load_from_sharepoint_break(its, bad) ==
    LET failing == {j \in Downloaded(its) : j \in bad \/ j \in MustFail(its)}
        upto == IF failing = {} THEN Len(its)
                ELSE (CHOOSE j \in failing : \A k \in failing : j <= k) - 1
    IN  Flatten([j \in 1..upto |->
                    IF its[j].ext \notin SUPPORTED_EXTENSIONS THEN <<>>
                    ELSE file_to_documents(its[j], remote[its[j].id].ver)])

\* load_from_sharepoint(client, items) when the files at the indexes in bad
\* raise in download_file or file_to_documents.
load_from_sharepoint(its, bad) ==
    Flatten([j \in DOMAIN its |->
                IF its[j].ext \notin SUPPORTED_EXTENSIONS THEN <<>>
                ELSE IF j \in bad \/ j \in MustFail(its) THEN <<>>
                ELSE file_to_documents(its[j], remote[its[j].id].ver)])

\* ----------------------------------------------------- rag/vectorstore.py

\* col.get(where={"sp_item_id": item_id}) and col.delete(ids=ids)
RemoveItem(st, item_id) == [c \in {d \in DOMAIN st : d.id # item_id} |-> st[c]]

\* delete_by_item_ids(item_ids) when the lookups or deletes at the indexes in
\* failed raise: each is logged and the loop goes on.
RECURSIVE delete_loop(_, _, _, _)
delete_loop(st, item_ids, j, failed) ==
    IF j > Len(item_ids) THEN st
    ELSE delete_loop(IF j \in failed THEN st ELSE RemoveItem(st, item_ids[j]),
                     item_ids, j + 1, failed)

\* A slip: the first lookup or delete that fails ends the loop.
delete_by_item_ids_break(st, item_ids, failed) ==
    LET upto == IF failed = {} THEN Len(item_ids)
                ELSE (CHOOSE j \in failed : \A k \in failed : j <= k) - 1
    IN  delete_loop(st, SubSeq(item_ids, 1, upto), 1, {})

delete_by_item_ids(st, item_ids, failed) == delete_loop(st, item_ids, 1, failed)

\* The whole call: an empty list returns at once (lines 89-90); _chroma_client
\* and get_or_create_collection (lines 92-93) are outside the try, and when
\* the store cannot be opened their exception leaves the function.
delete_by_item_ids_result(st, item_ids, failed, opens) ==
    IF item_ids = <<>> THEN [raised |-> FALSE, store |-> st]
    ELSE IF ~opens THEN [raised |-> TRUE, store |-> st]
    ELSE [raised |-> FALSE, store |-> delete_by_item_ids(st, item_ids, failed)]

\* clear_collection(): delete_collection and create_collection, any
\* exception logged and swallowed.
clear_collection(st, ok) == IF ok THEN EmptyBag ELSE st

\* vs.add_documents(batch)
add_documents(st, batch) == st (+) SeqToBag(batch)

\* A slip: the slice ends one element early.
Batch_short(d, i) == SubSeq(d, i + 1, Min(i + batch_size, Len(d)) - 1)

\* docs[i : i + batch_size]
Batch(d, i) == SubSeq(d, i + 1, Min(i + batch_size, Len(d)))

\* for i in range(0, len(docs), batch_size): the batches handed to
\* add_documents from index i on, in the order of the calls.
RECURSIVE batch_loop(_, _)
batch_loop(d, i) ==
    IF i >= Len(d) THEN <<>> ELSE <<Batch(d, i)>> \o batch_loop(d, i + batch_size)

\* {d.metadata["sp_item_id"] for d in docs if d.metadata.get("sp_item_id")}
ItemIdsOf(d) == {d[j].id : j \in DOMAIN d}

\* ----------------------------------------------------------- rag/chain.py

\* invalidate_chain(): _chain = None
invalidate_chain == chain' = "none"

\* get_chain(): the chain is built when there is none.
get_chain ==
    /\ chain = "none"
    /\ chain' = "built"
    /\ UNCHANGED <<remoteVars, auxVars, schedVars, diskVars, pc, localVars, outcome, startLog,
                   prev, faults>>

\* ------------------------------------------------------------------- Init

\* The number of stored chunks by sp_item_id.
CountsOf(st) ==
    [id \in Items |-> BagCardinality(RemoveItem(st, CHOOSE o \in Items : o # id))]

NoPrev == [op |-> "none", val |-> 0, counts |-> [id \in Items |-> 0], log |-> 0,
           docs |-> <<>>]

LocalsReset ==
    /\ items' = <<>>
    /\ deleted' = <<>>
    /\ delta_link' = NoCursor
    /\ pagesRead' = 0
    /\ docs' = <<>>
    /\ bi' = 0
    /\ processed' = 0
    /\ fromCache' = FALSE

\* Nothing stored, nothing running.
InitRest ==
    /\ log = <<>>
    /\ store = EmptyBag
    /\ cursorFile = NoCursor
    /\ cacheFile = NoFile
    /\ pc = "idle"
    /\ items = <<>>
    /\ deleted = <<>>
    /\ delta_link = NoCursor
    /\ pagesRead = 0
    /\ docs = <<>>
    /\ bi = 0
    /\ processed = 0
    /\ fromCache = FALSE
    /\ outcome = NoOutcome
    /\ startLog = 0
    /\ prev = NoPrev
    /\ faults = 0
    /\ timer = 0
    /\ manual = NoManual
    /\ fn = NoCall

InitBody ==
    /\ \E e \in Exts :
          remote = [id \in Items |->
                       IF id = "a"
                       THEN [exists |-> TRUE, ver |-> 1, ext |-> ".pdf", path |-> PathP]
                       ELSE [exists |-> TRUE, ver |-> 1, ext |-> e, path |-> PathPO]]
    /\ scan_folders \in {<<>>, <<PathP>>}
    /\ InitRest

\* The process of the orchestrators has built no chain.
Init == InitBody /\ track = FALSE /\ sched = "off" /\ chain = "none"

\* ------------------------------------------------- the library's changes

\* A change of the library commutes with every step that does not read the
\* library, so it is taken between runs or right before a step that reads it
\* (the first read of a run follows the start, which reads nothing).
ReadsRemote == {"idle", "ing_load", "ing_delta", "sync_load"}

CanChange == Len(log) < MaxChanges /\ pc \in ReadsRemote

Change(id, r, del) ==
    /\ remote' = [remote EXCEPT ![id] = r]
    /\ log' = Append(log, ItemOf(id, r, del))
    /\ UNCHANGED <<scan_folders, track, auxVars, chain, schedVars, diskVars, pc, localVars, outcome, startLog,
                   prev, faults>>

RemoteModify(id) ==
    /\ CanChange
    /\ remote[id].exists
    /\ remote[id].ver < MaxVer
    /\ Change(id, [remote[id] EXCEPT !.ver = @ + 1], FALSE)

RemoteRename(id) ==
    /\ CanChange
    /\ remote[id].exists
    /\ \E e \in Exts \ {remote[id].ext} :
          Change(id, [remote[id] EXCEPT !.ext = e], FALSE)

RemoteDelete(id) ==
    /\ CanChange
    /\ remote[id].exists
    /\ Change(id, [remote[id] EXCEPT !.exists = FALSE], TRUE)

\* A file moved to the other folder keeps its id and content; the feed
\* reports it with its new parentReference.
RemoteMove(id) ==
    /\ CanChange
    /\ remote[id].exists
    /\ \E p \in {PathP, PathPO} \ {remote[id].path} :
          Change(id, [remote[id] EXCEPT !.path = p], FALSE)

\* A deleted file restored from the recycle bin keeps its id and content.
RemoteRestore(id) ==
    /\ CanChange
    /\ ~remote[id].exists
    /\ Change(id, [remote[id] EXCEPT !.exists = TRUE], FALSE)

\* ------------------------------------------------------------ exceptions

\* A step at which some call failed, and one at which none did.
Faulty == faults < MaxFaults /\ faults' = faults + 1
Sound == UNCHANGED faults
FaultIf(failed) == IF failed THEN Faulty ELSE Sound

\* An exception leaves the orchestrator; the process ends.
Raise(op) ==
    /\ pc' = "idle"
    /\ outcome' = [op |-> op, kind |-> "raise", at |-> pc, val |-> 0]
    /\ LocalsReset
    /\ Faulty
    /\ prev' = NoPrev
    /\ UNCHANGED <<remoteVars, auxVars, chain, schedVars, diskVars, startLog>>

Return(op, donePc, val) ==
    /\ pc' = donePc
    /\ outcome' = [op |-> op, kind |-> "return", at |-> pc, val |-> val]
    /\ UNCHANGED <<startLog, prev>>

\* ---------------------------------------------- scripts/ingest.py run_ingest

IngestPcs == {"ing_list", "ing_load", "ing_cache_open", "ing_cache_dump",
              "ing_clear", "ing_embed", "ing_delta", "ing_save", "ing_unlink"}

\* A slip in the order of run_ingest: the collection is cleared and filled
\* before the cache is written.
ingest_next_clear_first(p) ==
    CASE p = "ing_list" -> "ing_load"
      [] p = "ing_load" -> "ing_clear"
      [] p = "ing_cache_open" -> "ing_cache_dump"
      [] p = "ing_cache_dump" -> "ing_unlink"
      [] p = "ing_clear" -> "ing_embed"
      [] p = "ing_embed" -> "ing_delta"
      [] p = "ing_delta" -> "ing_save"
      [] p = "ing_save" -> "ing_cache_open"
      [] OTHER -> "ing_done"

\* A slip in the order of run_ingest: the cache is unlinked once the batches
\* are in, before the cursor is fetched.
ingest_next_unlink_early(p) ==
    CASE p = "ing_list" -> "ing_load"
      [] p = "ing_load" -> "ing_cache_open"
      [] p = "ing_cache_open" -> "ing_cache_dump"
      [] p = "ing_cache_dump" -> "ing_clear"
      [] p = "ing_clear" -> "ing_embed"
      [] p = "ing_embed" -> "ing_unlink"
      [] OTHER -> "ing_done"

\* The order of the statements of run_ingest: what follows the step at p.
ingest_next(p) ==
    CASE p = "ing_list" -> "ing_load"
      [] p = "ing_load" -> "ing_cache_open"
      [] p = "ing_cache_open" -> "ing_cache_dump"
      [] p = "ing_cache_dump" -> "ing_clear"
      [] p = "ing_clear" -> "ing_embed"
      [] p = "ing_embed" -> "ing_delta"
      [] p = "ing_delta" -> "ing_save"
      [] p = "ing_save" -> "ing_unlink"
      [] OTHER -> "ing_done"

\* Lines 57-61: CACHE_PATH.exists() and pickle.load, which raises on a file
\* that was opened for writing and never dumped.
IngestStart ==
    /\ pc = "idle"
    /\ \/ /\ cacheFile.state = "whole"
          /\ pc' = "ing_clear"
          /\ docs' = cacheFile.docs
          /\ fromCache' = TRUE
          /\ outcome' = NoOutcome
          /\ UNCHANGED <<items, deleted, delta_link, pagesRead, bi, processed>>
       \/ /\ cacheFile.state = "partial"
          /\ outcome' = [op |-> "ingest", kind |-> "raise", at |-> "ing_start", val |-> 0]
          /\ UNCHANGED <<pc, localVars>>
       \/ /\ cacheFile.state = "nofile"
          /\ pc' = "ing_list"
          /\ outcome' = NoOutcome
          /\ UNCHANGED localVars
    /\ startLog' = IF track THEN Len(log) ELSE startLog
    /\ prev' = IF cacheFile.state = "partial" THEN NoPrev ELSE prev
    /\ UNCHANGED <<remoteVars, auxVars, chain, schedVars, diskVars, faults>>

\* Lines 63-69: list_all_files, some of whose folder requests fail.
IngestList ==
    /\ pc = "ing_list"
    /\ \E bad \in SUBSET ScanTargets :
          LET r == list_all_files_result(bad)
          IN  IF r.raised
              THEN Raise("ingest")
              ELSE /\ FaultIf(bad # {})
                   /\ IF r.files = <<>>
                      THEN Return("ingest", "ing_done", 0) /\ UNCHANGED localVars
                      ELSE /\ items' = r.files
                           /\ pc' = ingest_next(pc)
                           /\ UNCHANGED <<deleted, delta_link, pagesRead, docs, bi,
                                          processed, fromCache, outcome, startLog, prev>>
    /\ UNCHANGED <<remoteVars, auxVars, chain, schedVars, diskVars>>

\* get_drive_id raises (line 128).
IngestListRaise == pc = "ing_list" /\ Raise("ingest")

\* A slip: the cache is written before docs is tested, so that a run that
\* loaded nothing leaves a cache of no chunks behind.
IngestLoadCachesFirst ==
    /\ pc = "ing_load"
    /\ \E bad \in SUBSET (Downloaded(items) \ MustFail(items)) :
          /\ FaultIf(bad # {})
          /\ LET d == load_from_sharepoint(items, bad)
             IN  /\ cacheFile' = Cached(d)
                 /\ IF d = <<>>
                    THEN Return("ingest", "ing_done", 0) /\ UNCHANGED localVars
                    ELSE /\ docs' = d
                         /\ pc' = "ing_cache_dump"
                         /\ UNCHANGED <<items, deleted, delta_link, pagesRead, bi,
                                        processed, fromCache, outcome, startLog, prev>>
    /\ UNCHANGED <<remoteVars, auxVars, chain, schedVars, store, cursorFile>>

\* Lines 71-75: load_from_sharepoint never raises.
IngestLoad ==
    /\ pc = "ing_load"
    /\ \E bad \in SUBSET (Downloaded(items) \ MustFail(items)) :
          /\ FaultIf(bad # {})
          /\ LET d == load_from_sharepoint(items, bad)
             IN  IF d = <<>>
                 THEN Return("ingest", "ing_done", 0) /\ UNCHANGED localVars
                 ELSE /\ docs' = d
                      /\ pc' = ingest_next(pc)
                      /\ UNCHANGED <<items, deleted, delta_link, pagesRead, bi,
                                     processed, fromCache, outcome, startLog, prev>>
    /\ UNCHANGED <<remoteVars, auxVars, chain, schedVars, diskVars>>

\* Line 78: CACHE_PATH.open("wb") creates the file, empty.
IngestCacheOpen ==
    /\ pc = "ing_cache_open"
    /\ cacheFile' = Partial
    /\ pc' = ingest_next(pc)
    /\ UNCHANGED <<remoteVars, auxVars, chain, schedVars, store, cursorFile, localVars, outcome, startLog, prev, faults>>

\* Line 79: pickle.dump(docs, f)
IngestCacheDump ==
    /\ pc = "ing_cache_dump"
    /\ cacheFile' = Cached(docs)
    /\ pc' = ingest_next(pc)
    /\ UNCHANGED <<remoteVars, auxVars, chain, schedVars, store, cursorFile, localVars, outcome, startLog, prev, faults>>

\* Lines 82-85: clear_collection()
IngestClear ==
    /\ pc = "ing_clear"
    /\ \E ok \in BOOLEAN :
          /\ FaultIf(~ok)
          /\ store' = clear_collection(store, ok)
    /\ pc' = ingest_next(pc)
    /\ bi' = 0
    /\ UNCHANGED <<remoteVars, auxVars, chain, schedVars, cursorFile, cacheFile, items, deleted, delta_link,
                   pagesRead, docs, processed, fromCache, outcome, startLog, prev>>

\* Lines 91-95: one turn of the batch loop.
IngestBatch ==
    /\ pc = "ing_embed"
    /\ bi < Len(docs)
    /\ store' = add_documents(store, Batch(docs, bi))
    /\ bi' = bi + batch_size
    /\ pc' = IF bi + batch_size < Len(docs) THEN pc ELSE ingest_next(pc)
    /\ UNCHANGED <<remoteVars, auxVars, chain, schedVars, cursorFile, cacheFile, items, deleted, delta_link,
                   pagesRead, docs, processed, fromCache, outcome, startLog, prev, faults>>

\* The embedding call or the insert raises.
IngestBatchRaise == pc = "ing_embed" /\ Raise("ingest")

\* Line 99: _, _, delta_link = client.get_delta()
IngestDelta ==
    /\ pc = "ing_delta"
    /\ \E hasLink \in BOOLEAN :
          /\ FaultIf(~hasLink)
          /\ LET r == get_delta(hasLink)
             IN  /\ delta_link' = r.delta_link
                 /\ pagesRead' = r.pages
    /\ pc' = ingest_next(pc)
    /\ UNCHANGED <<remoteVars, auxVars, chain, schedVars, diskVars, items, deleted, docs, bi, processed,
                   fromCache, outcome, startLog, prev>>

IngestDeltaRaise == pc = "ing_delta" /\ Raise("ingest")

\* Lines 100-106: save_delta_token if a link came back; invalidate_chain.
IngestSave ==
    /\ pc = "ing_save"
    /\ cursorFile' = IF delta_link # NoCursor THEN delta_link ELSE cursorFile
    /\ invalidate_chain
    /\ pc' = ingest_next(pc)
    /\ UNCHANGED <<remoteVars, auxVars, schedVars, store, cacheFile, localVars, outcome,
                   startLog, prev, faults>>

\* Lines 108-116: unlink the cache and return len(docs).
IngestUnlink ==
    /\ pc = "ing_unlink"
    /\ cacheFile' = NoFile
    /\ Return("ingest", ingest_next(pc), Len(docs))
    /\ UNCHANGED <<remoteVars, auxVars, chain, schedVars, store, cursorFile, localVars, faults>>

IngestFinish ==
    /\ pc = "ing_done"
    /\ pc' = "idle"
    /\ LocalsReset
    /\ prev' = IF track
               THEN [op |-> "ingest", val |-> outcome.val,
                     counts |-> CountsOf(store), log |-> startLog,
                     docs |-> docs]
               ELSE prev
    /\ UNCHANGED <<remoteVars, auxVars, chain, schedVars, diskVars, outcome, startLog, faults>>

\* The process is killed anywhere in run_ingest.
IngestKill ==
    /\ pc \in IngestPcs
    /\ pc' = "idle"
    /\ outcome' = [op |-> "ingest", kind |-> "kill", at |-> "idle", val |-> 0]
    /\ LocalsReset
    /\ Faulty
    /\ prev' = NoPrev
    /\ UNCHANGED <<remoteVars, auxVars, chain, schedVars, diskVars, startLog>>

\* -------------------------------------------------- scripts/sync.py run_sync

SyncPcs == {"sync_delta", "sync_delete", "sync_load", "sync_upsert",
            "sync_add", "sync_save"}

\* run_sync is called: by hand, or by run_scheduler at the top of its loop
\* (sync.py:97).
SyncStart ==
    /\ pc = "idle"
    /\ sched \in {"off", "run"}
    /\ sched' = IF sched = "run" THEN "cycle" ELSE sched
    /\ pc' = "sync_delta"
    /\ outcome' = NoOutcome
    /\ startLog' = IF track THEN Len(log) ELSE startLog
    /\ prev' = NoPrev
    /\ UNCHANGED <<remoteVars, auxVars, chain, timer, diskVars, localVars, faults>>

\* Line 48: new_or_modified, deleted, delta_link = client.get_delta()
SyncDelta ==
    /\ pc = "sync_delta"
    /\ \E hasLink \in BOOLEAN :
          /\ FaultIf(~hasLink)
          /\ LET r == get_delta(hasLink)
             IN  /\ items' = r.new_or_modified
                 /\ deleted' = r.deleted
                 /\ delta_link' = r.delta_link
                 /\ pagesRead' = r.pages
    /\ pc' = "sync_delete"
    /\ UNCHANGED <<remoteVars, auxVars, chain, schedVars, diskVars, docs, bi, processed, fromCache, outcome, startLog, prev>>

\* A slip: get_delta keeps the cursor file up to date as it reads, so that a
\* read that fails has moved the cursor already.
SyncDeltaRaiseCursorMoved ==
    /\ pc = "sync_delta"
    /\ pc' = "idle"
    /\ outcome' = [op |-> "sync", kind |-> "raise", at |-> pc, val |-> 0]
    /\ LocalsReset
    /\ Faulty
    /\ prev' = NoPrev
    /\ cursorFile' = [kind |-> "delta", pos |-> Len(log), off |-> 0]
    /\ UNCHANGED <<remoteVars, auxVars, chain, schedVars, store, cacheFile, startLog>>

\* Lines 46-48: SharePointClient() or get_delta raises (authentication,
\* transport); nothing catches it in run_sync.
SyncDeltaRaise == pc = "sync_delta" /\ Raise("sync")

\* Lines 53-57: the deletions.
SyncDelete ==
    /\ pc = "sync_delete"
    /\ IF deleted # <<>>
       THEN LET ids == [j \in DOMAIN deleted |-> deleted[j].id]
            IN  /\ \E failed \in SUBSET DOMAIN ids :
                      /\ FaultIf(failed # {})
                      /\ store' = delete_by_item_ids(store, ids, failed)
                /\ processed' = processed + Len(ids)
       ELSE UNCHANGED <<store, processed, faults>>
    /\ pc' = "sync_load"
    /\ UNCHANGED <<remoteVars, auxVars, chain, schedVars, cursorFile, cacheFile, items, deleted, delta_link,
                   pagesRead, docs, bi, fromCache, outcome, startLog, prev>>

\* _chroma_client() and get_or_create_collection are outside the try.
SyncDeleteRaise == pc = "sync_delete" /\ deleted # <<>> /\ Raise("sync")

\* Lines 60-63: load_from_sharepoint(client, new_or_modified)
SyncLoad ==
    /\ pc = "sync_load"
    /\ IF items # <<>>
       THEN \E bad \in SUBSET (Downloaded(items) \ MustFail(items)) :
               /\ FaultIf(bad # {})
               /\ LET d == load_from_sharepoint(items, bad)
                  IN  /\ docs' = d
                      /\ pc' = IF d # <<>> THEN "sync_upsert" ELSE "sync_save"
       ELSE /\ pc' = "sync_save"
            /\ UNCHANGED <<docs, faults>>
    /\ UNCHANGED <<remoteVars, auxVars, chain, schedVars, diskVars, items, deleted, delta_link, pagesRead,
                   bi, processed, fromCache, outcome, startLog, prev>>

\* Lines 65-68 and upsert_documents lines 74-75: item_ids is the list of a
\* set, in an order the hash decides; delete_by_item_ids(item_ids).
SyncUpsertDelete ==
    /\ pc = "sync_upsert"
    /\ \E item_ids \in Orders(ItemIdsOf(docs)) :
          \E failed \in SUBSET DOMAIN item_ids :
             /\ FaultIf(failed # {})
             /\ store' = delete_by_item_ids(store, item_ids, failed)
    /\ bi' = 0
    /\ pc' = "sync_add"
    /\ UNCHANGED <<remoteVars, auxVars, chain, schedVars, cursorFile, cacheFile, items, deleted, delta_link,
                   pagesRead, docs, processed, fromCache, outcome, startLog, prev>>

SyncUpsertDeleteRaise == pc = "sync_upsert" /\ Raise("sync")

\* upsert_documents lines 80-83: one turn of the batch loop; sync.py line 69
\* after the last.
SyncAdd ==
    /\ pc = "sync_add"
    /\ bi < Len(docs)
    /\ store' = add_documents(store, Batch(docs, bi))
    /\ bi' = bi + batch_size
    /\ IF bi + batch_size < Len(docs)
       THEN pc' = "sync_add" /\ UNCHANGED processed
       ELSE pc' = "sync_save" /\ processed' = processed + Len(docs)
    /\ UNCHANGED <<remoteVars, auxVars, chain, schedVars, cursorFile, cacheFile, items, deleted, delta_link,
                   pagesRead, docs, fromCache, outcome, startLog, prev, faults>>

SyncAddRaise == pc = "sync_add" /\ Raise("sync")

\* A slip: the cursor is kept back when the cycle processed nothing.
SyncSaveIfProcessed ==
    /\ pc = "sync_save"
    /\ cursorFile' = IF delta_link # NoCursor /\ processed > 0
                     THEN delta_link ELSE cursorFile
    /\ IF processed > 0 THEN invalidate_chain ELSE UNCHANGED chain
    /\ Return("sync", "sync_done", processed)
    /\ UNCHANGED <<remoteVars, auxVars, schedVars, store, cacheFile, localVars, faults>>

\* A slip: the chain is invalidated at the end of every cycle, as run_ingest
\* does at the end of every run.
SyncSaveInvalidates ==
    /\ pc = "sync_save"
    /\ cursorFile' = IF delta_link # NoCursor THEN delta_link ELSE cursorFile
    /\ invalidate_chain
    /\ Return("sync", "sync_done", processed)
    /\ UNCHANGED <<remoteVars, auxVars, schedVars, store, cacheFile, localVars, faults>>

\* Lines 72-82: save_delta_token if a link came back; invalidate_chain;
\* return processed.
SyncSave ==
    /\ pc = "sync_save"
    /\ cursorFile' = IF delta_link # NoCursor THEN delta_link ELSE cursorFile
    /\ IF processed > 0 THEN invalidate_chain ELSE UNCHANGED chain
    /\ Return("sync", "sync_done", processed)
    /\ UNCHANGED <<remoteVars, auxVars, schedVars, store, cacheFile, localVars, faults>>

SyncFinish ==
    /\ pc = "sync_done"
    /\ pc' = "idle"
    /\ LocalsReset
    /\ UNCHANGED <<remoteVars, auxVars, chain, schedVars, diskVars, outcome, startLog, prev, faults>>

\* --------------------------------- scripts/sync.py run_sync, started by hand

\* A slip: a lock that the two writers share; the run started by hand waits
\* for the cycle that is running.
ManualStartLocked ==
    /\ manual.pc = "off"
    /\ pc = "idle"
    /\ manual' = [manual EXCEPT !.pc = "delta"]
    /\ UNCHANGED <<remoteVars, fn, chain, schedVars, diskVars, pc, localVars, outcome,
                   startLog, prev, faults>>

\* app.py lines 179-181: run_sync() is called while the scheduler runs in its
\* own process; nothing is tested and nothing is locked.
ManualStart ==
    /\ manual.pc = "off"
    /\ manual' = [manual EXCEPT !.pc = "delta"]
    /\ UNCHANGED <<remoteVars, fn, chain, schedVars, diskVars, pc, localVars, outcome,
                   startLog, prev, faults>>

\* The steps of that run_sync, none of whose calls fails; its local
\* variables are the fields of manual.
ManualSync ==
    /\ \/ /\ manual.pc = "delta"
          /\ LET r == get_delta(TRUE)
             IN  manual' = [manual EXCEPT !.pc = "delete",
                                          !.items = r.new_or_modified,
                                          !.deleted = r.deleted,
                                          !.delta_link = r.delta_link]
          /\ UNCHANGED <<diskVars, chain>>
       \/ /\ manual.pc = "delete"
          /\ store' = delete_by_item_ids(
                          store, [j \in DOMAIN manual.deleted |-> manual.deleted[j].id], {})
          /\ manual' = [manual EXCEPT !.pc = "load",
                                       !.processed = Len(manual.deleted)]
          /\ UNCHANGED <<cursorFile, cacheFile, chain>>
       \/ /\ manual.pc = "load"
          /\ LET d == load_from_sharepoint(manual.items, {})
             IN  manual' = [manual EXCEPT !.pc = IF d # <<>> THEN "upsert" ELSE "save",
                                          !.docs = d]
          /\ UNCHANGED <<diskVars, chain>>
       \/ /\ manual.pc = "upsert"
          /\ \E item_ids \in Orders(ItemIdsOf(manual.docs)) :
                store' = delete_by_item_ids(store, item_ids, {})
          /\ manual' = [manual EXCEPT !.pc = "add", !.bi = 0]
          /\ UNCHANGED <<cursorFile, cacheFile, chain>>
       \/ /\ manual.pc = "add"
          /\ store' = add_documents(store, Batch(manual.docs, manual.bi))
          /\ manual' = [manual EXCEPT
                           !.bi = manual.bi + batch_size,
                           !.pc = IF manual.bi + batch_size < Len(manual.docs)
                                  THEN "add" ELSE "save",
                           !.processed = IF manual.bi + batch_size < Len(manual.docs)
                                         THEN manual.processed
                                         ELSE manual.processed + Len(manual.docs)]
          /\ UNCHANGED <<cursorFile, cacheFile, chain>>
       \/ /\ manual.pc = "save"
          /\ cursorFile' = IF manual.delta_link # NoCursor
                           THEN manual.delta_link ELSE cursorFile
          /\ IF manual.processed > 0 THEN invalidate_chain ELSE UNCHANGED chain
          /\ manual' = [manual EXCEPT !.pc = "done"]
          /\ UNCHANGED <<store, cacheFile>>
    /\ UNCHANGED <<remoteVars, fn, schedVars, pc, localVars, outcome, startLog, prev, faults>>

\* ---------------------------------------------- scripts/sync.py run_scheduler

\* A slip: the Exception of a failed cycle is not caught, and the loop never
\* reaches its sleep after such a cycle.
SchedSleepUnlessRaised ==
    /\ sched = "cycle"
    /\ pc = "idle"
    /\ outcome.kind # "raise"
    /\ sched' = "sleep"
    /\ timer' = interval_secs
    /\ UNCHANGED <<remoteVars, auxVars, chain, diskVars, pc, localVars, outcome, startLog, prev, faults>>

\* Lines 101-106: run_sync has returned, or raised an Exception which is
\* logged; time.sleep(interval_secs) begins.
SchedSleep ==
    /\ sched = "cycle"
    /\ pc = "idle"
    /\ sched' = "sleep"
    /\ timer' = interval_secs
    /\ UNCHANGED <<remoteVars, auxVars, chain, diskVars, pc, localVars, outcome, startLog, prev, faults>>

\* Time passes in time.sleep.
SchedTick ==
    /\ sched = "sleep"
    /\ timer > 0
    /\ timer' = timer - 1
    /\ UNCHANGED <<remoteVars, auxVars, chain, sched, diskVars, pc, localVars, outcome, startLog, prev,
                   faults>>

\* A slip: the loop goes round before the interval has passed.
SchedWakeEarly ==
    /\ sched = "sleep"
    /\ sched' = "run"
    /\ timer' = 0
    /\ UNCHANGED <<remoteVars, auxVars, chain, diskVars, pc, localVars, outcome, startLog, prev, faults>>

\* time.sleep returns; the loop goes round (line 95).
SchedWake ==
    /\ sched = "sleep"
    /\ timer = 0
    /\ sched' = "run"
    /\ UNCHANGED <<remoteVars, auxVars, chain, timer, diskVars, pc, localVars, outcome, startLog, prev,
                   faults>>

\* Lines 107-109: KeyboardInterrupt in time.sleep; break.
SchedInterruptSleep ==
    /\ sched = "sleep"
    /\ sched' = "stopped"
    /\ timer' = 0
    /\ UNCHANGED <<remoteVars, auxVars, chain, diskVars, pc, localVars, outcome, startLog, prev, faults>>

\* A slip: the interrupt is handled as any exception of the cycle is,
\* logged, and the loop goes on to its sleep.
SchedInterruptLogged ==
    /\ sched = "cycle"
    /\ pc \in SyncPcs \cup {"sync_done"}
    /\ pc' = "idle"
    /\ outcome' = [op |-> "sync", kind |-> "interrupt", at |-> pc, val |-> 0]
    /\ LocalsReset
    /\ UNCHANGED <<remoteVars, auxVars, chain, schedVars, diskVars, startLog, prev, faults>>

\* Lines 98-100: KeyboardInterrupt while run_sync is running. It is raised
\* at the statement run_sync has reached, is no Exception, so that no
\* handler below catches it, and reaches the scheduler's except clause;
\* break.
SchedInterruptCycle ==
    /\ sched = "cycle"
    /\ pc \in SyncPcs \cup {"sync_done"}
    /\ pc' = "idle"
    /\ outcome' = [op |-> "sync", kind |-> "interrupt", at |-> pc, val |-> 0]
    /\ LocalsReset
    /\ sched' = "stopped"
    /\ UNCHANGED <<remoteVars, auxVars, chain, timer, diskVars, startLog, prev, faults>>

\* ------------------------------------------------ functions on their own

\* Lists of at most n elements of S.
SeqsUpTo(S, n) == UNION {[1..m -> S] : m \in 0..n}

\* One call is made, and it leaves everything but its record as it is.
Called(rec) ==
    /\ fn = NoCall
    /\ fn' = rec
    /\ UNCHANGED <<remoteVars, manual, chain, schedVars, diskVars, pc, localVars, outcome,
                   startLog, prev, faults>>

\* load_from_sharepoint(client, items) on a list of items of the library, the
\* files at the indexes in bad failing in download_file or in their parser.
CallLoad ==
    \E ids \in SeqsUpTo(Items, MaxLen) :
       LET its == [j \in DOMAIN ids |-> FileItem(ids[j])]
       IN  \E bad \in SUBSET Downloaded(its) :
              Called([name |-> "load_from_sharepoint", items |-> its, bad |-> bad,
                      result |-> load_from_sharepoint(its, bad)])

\* file_to_documents(item, content) and the test of load_from_sharepoint
\* that decides on the download, on a file of any suffix.
CallFile ==
    \E id \in Items, v \in 1..MaxVer,
       e \in DocumentedExtensions \cup SUPPORTED_EXTENSIONS \cup {".csv"} :
       LET item == ItemOf(id, [remote[id] EXCEPT !.ext = e], FALSE)
       IN  Called([name |-> "file_to_documents", item |-> item,
                   downloaded |-> Downloaded(<<item>>) # {},
                   result |-> file_to_documents(item, v)])

\* save_delta_token(c) and then _load_delta_token(), for every cursor.
CallSaveLoad ==
    \E c \in SeqsUpTo({"u", "\"", "\\"}, MaxLen) :
       Called([name |-> "save_delta_token", c |-> c, file |-> save_delta_token(c),
               result |-> load_delta_token_text(save_delta_token(c))])

\* _load_delta_token() and the first URL of get_delta on a cursor file that
\* is missing or holds any short text.
CallLoadToken ==
    \E file \in SeqsUpTo({"{", "}", "\"", "\\", "u"}, MaxLen) \cup {NoText} :
       Called([name |-> "_load_delta_token", file |-> file,
               result |-> load_delta_token_text(file),
               url |-> start_url(load_delta_token_text(file))])

\* The batch loop of upsert_documents and of run_ingest on a list of n
\* chunks, the chunks being numbered.
CallBatches ==
    \E n \in 0..MaxDocs :
       Called([name |-> "upsert_documents", docs |-> [k \in 1..n |-> k],
               result |-> batch_loop([k \in 1..n |-> k], 0)])

\* What the files in S make when they are loaded: a store to call with.
StoreWith(S) ==
    SeqToBag(load_from_sharepoint(
        SelectSeq([j \in DOMAIN IdOrder |-> FileItem(IdOrder[j])],
                  LAMBDA it : it.id \in S), {}))

\* delete_by_item_ids(item_ids) on a store, the lookups or deletes at the
\* indexes in failed raising, the store opening or not.
CallDelete ==
    \E S \in SUBSET Items, item_ids \in SeqsUpTo(Items, MaxLen), opens \in BOOLEAN :
       \E failed \in SUBSET DOMAIN item_ids :
          Called([name |-> "delete_by_item_ids", store |-> StoreWith(S),
                  item_ids |-> item_ids, failed |-> failed, opens |-> opens,
                  result |-> delete_by_item_ids_result(StoreWith(S), item_ids, failed,
                                                       opens)])

\* ------------------------------------------------------------------- Next

Next ==
    \/ \E id \in Items : RemoteModify(id)
    \/ \E id \in Items : RemoteRename(id)
    \/ \E id \in Items : RemoteDelete(id)
    \/ \E id \in Items : RemoteRestore(id)
    \/ IngestStart
    \/ IngestList
    \/ IngestListRaise
    \/ IngestLoad
    \/ IngestCacheOpen
    \/ IngestCacheDump
    \/ IngestClear
    \/ IngestBatch
    \/ IngestBatchRaise
    \/ IngestDelta
    \/ IngestDeltaRaise
    \/ IngestSave
    \/ IngestUnlink
    \/ IngestFinish
    \/ IngestKill
    \/ SyncStart
    \/ SyncDelta
    \/ SyncDeltaRaise
    \/ SyncDelete
    \/ SyncDeleteRaise
    \/ SyncLoad
    \/ SyncUpsertDelete
    \/ SyncUpsertDeleteRaise
    \/ SyncAdd
    \/ SyncAddRaise
    \/ SyncSave
    \/ SyncFinish

Spec == Init /\ [][Next]_vars

\* Full ingestions only, with the history of the last one kept.
InitIdem == InitBody /\ track = TRUE /\ sched = "off" /\ chain = "none"

NextIdem ==
    \/ \E id \in Items : RemoteModify(id)
    \/ \E id \in Items : RemoteRename(id)
    \/ \E id \in Items : RemoteDelete(id)
    \/ \E id \in Items : RemoteRestore(id)
    \/ IngestStart
    \/ IngestList
    \/ IngestListRaise
    \/ IngestLoad
    \/ IngestCacheOpen
    \/ IngestCacheDump
    \/ IngestClear
    \/ IngestBatch
    \/ IngestBatchRaise
    \/ IngestDelta
    \/ IngestDeltaRaise
    \/ IngestSave
    \/ IngestUnlink
    \/ IngestFinish
    \/ IngestKill

SpecIdem == InitIdem /\ [][NextIdem]_vars

\* The library's files are also moved between folders.
NextMove ==
    \/ Next
    \/ \E id \in Items : RemoteMove(id)

SpecMove == Init /\ [][NextMove]_vars

\* The listing and the bootstrap feed over every placing of the files and
\* every scope.
InitScope ==
    /\ remote \in [Items -> [exists : BOOLEAN, ver : {1}, ext : {".pdf"},
                              path : ScopePaths]]
    /\ scan_folders \in Scopes
    /\ InitRest
    /\ track = FALSE
    /\ sched = "off"
    /\ chain = "none"

NextScope ==
    \/ IngestStart
    \/ IngestList
    \/ IngestListRaise
    \/ SyncStart
    \/ SyncDelta
    \/ SyncDeltaRaise

SpecScope == InitScope /\ [][NextScope]_vars

\* run_sync in the process of the app, which builds its chain when a
\* question is asked, over files that are modified and deleted.
InitChain == InitBody /\ track = FALSE /\ sched = "off" /\ chain = "built"

NextChain ==
    \/ \E id \in Items : RemoteModify(id)
    \/ \E id \in Items : RemoteDelete(id)
    \/ get_chain
    \/ SyncStart
    \/ SyncDelta
    \/ SyncDeltaRaise
    \/ SyncDelete
    \/ SyncDeleteRaise
    \/ SyncLoad
    \/ SyncUpsertDelete
    \/ SyncUpsertDeleteRaise
    \/ SyncAdd
    \/ SyncAddRaise
    \/ SyncSave
    \/ SyncFinish

SpecChain == InitChain /\ [][NextChain]_vars

\* A cycle of run_sync and a run_sync started by hand at any moment, over
\* files that are modified.
InitRace ==
    /\ remote = [id \in Items |->
                    [exists |-> TRUE, ver |-> 1, ext |-> ".pdf",
                     path |-> IF id = "a" THEN PathP ELSE PathPO]]
    /\ scan_folders = <<>>
    /\ InitRest
    /\ track = FALSE
    /\ sched = "off"
    /\ chain = "none"

NextRace ==
    \/ RemoteModify("a")
    \/ SyncStart
    \/ SyncDelta
    \/ SyncDelete
    \/ SyncLoad
    \/ SyncUpsertDelete
    \/ SyncAdd
    \/ SyncSave
    \/ SyncFinish
    \/ ManualStart
    \/ ManualSync

SpecRace == InitRace /\ [][NextRace]_vars

\* The functions that the orchestrators call, each called on its own with
\* every argument of a bounded size, over every state of two files.
InitFn ==
    /\ remote \in [Items -> [exists : BOOLEAN, ver : 1..MaxVer, ext : Exts, path : {PathP}]]
    /\ scan_folders = <<>>
    /\ InitRest
    /\ track = FALSE
    /\ sched = "off"
    /\ chain = "none"

NextFn ==
    \/ CallLoad
    \/ CallDelete
    \/ CallFile
    \/ CallSaveLoad
    \/ CallLoadToken
    \/ CallBatches

SpecFn == InitFn /\ [][NextFn]_vars

\* run_scheduler alone, over a library that does not change: the cycles it
\* starts, their failures, its sleeps, the interrupt.
InitSched == InitBody /\ track = FALSE /\ sched = "run" /\ chain = "none"

NextSched ==
    \/ SyncStart
    \/ SyncDelta
    \/ SyncDeltaRaise
    \/ SyncDelete
    \/ SyncLoad
    \/ SyncUpsertDelete
    \/ SyncUpsertDeleteRaise
    \/ SyncAdd
    \/ SyncAddRaise
    \/ SyncSave
    \/ SyncFinish
    \/ SchedSleep
    \/ SchedTick
    \/ SchedWake
    \/ SchedInterruptSleep
    \/ SchedInterruptCycle

\* The one thread of run_scheduler keeps running and time keeps passing;
\* failures, interrupts and changes of the library need not happen.
SchedProgress ==
    \/ SyncStart
    \/ SyncDelta
    \/ SyncDelete
    \/ SyncLoad
    \/ SyncUpsertDelete
    \/ SyncAdd
    \/ SyncSave
    \/ SyncFinish
    \/ SchedSleep
    \/ SchedTick
    \/ SchedWake

SpecSched == InitSched /\ [][NextSched]_vars /\ WF_vars(SchedProgress)

\* upsert_documents lines 80-83: add_documents raises in a turn of the batch
\* loop that is not the first; the batches before it are in the store.
SyncAddRaisePartWay == pc = "sync_add" /\ bi > 0 /\ Raise("sync")

\* Cycles of run_sync, one after the other, over files that are modified and
\* moved, in which no call fails but an insertion, part-way.
NextRetry ==
    \/ \E id \in Items : RemoteModify(id)
    \/ \E id \in Items : RemoteMove(id)
    \/ SyncStart
    \/ SyncDelta /\ Sound
    \/ SyncDelete /\ Sound
    \/ SyncLoad /\ Sound
    \/ SyncUpsertDelete /\ Sound
    \/ SyncAdd
    \/ SyncAddRaisePartWay
    \/ SyncSave
    \/ SyncFinish

SpecRetry == InitIdem /\ [][NextRetry]_vars

\* ----------------------------------------------------------------- claims

\* The stored chunks of one item, and the chunks of it among docs.
StoreOf(id) == {c \in DOMAIN store : c.id = id}
StoreBagOf(id) == [c \in StoreOf(id) |-> store[c]]
DocsOf(id) == SelectSeq(docs, LAMBDA c : c.id = id)
IdsIn(its) == {its[j].id : j \in DOMAIN its}

\* upsert_documents has run in this cycle: docs is set only by a load that
\* goes on to it.
Upserting == pc \in {"sync_add", "sync_save", "sync_done"} /\ docs # <<>>

\* C1: for every item id that upsert_documents touches in a sync cycle, the
\* item's old chunks are gone before its first new chunk is inserted, the
\* store holds no chunk of the id beside the new ones while the cycle runs,
\* and exactly the new ones when it has returned.
C1_OldNeverWithNew ==
    Upserting =>
        \A id \in ItemIdsOf(docs) :
            /\ (pc = "sync_add" /\ bi = 0) => StoreOf(id) = {}
            /\ StoreBagOf(id) \sqsubseteq SeqToBag(DocsOf(id))
            /\ pc = "sync_done" => StoreBagOf(id) = SeqToBag(DocsOf(id))

\* C2: when run_sync has returned from a cycle whose feed reported item X as
\* deleted (and did not also report X as a file), no chunk with
\* sp_item_id = X is stored.
C2_DeletedItemsGone ==
    pc = "sync_done" =>
        \A id \in IdsIn(deleted) \ IdsIn(items) : StoreOf(id) = {}

\* C3: when a sync cycle has returned, the stored chunks of every item it
\* reported as added or modified are the chunks extracted from the item in
\* this cycle, and none at all if the extraction gave none.
C3_StoreIsCurrentContent ==
    pc = "sync_done" =>
        \A id \in IdsIn(items) : StoreBagOf(id) = SeqToBag(DocsOf(id))

\* The last item the feed reported for id, if the file is still as reported.
LastReport(id) ==
    LET js == {j \in DOMAIN items : items[j].id = id}
    IN  items[CHOOSE j \in js : \A h \in js : h <= j]
Current(it) ==
    /\ remote[it.id].exists
    /\ remote[it.id].ver = it.etag
    /\ remote[it.id].ext = it.ext
ChunkSet(seq) == {seq[j] : j \in DOMAIN seq}

\* C4: run_sync writes a new cursor only when the change set it read is in
\* the store: no chunk of a deleted item is left, and the chunks of every
\* added or modified file that is still as reported are those of its content.
C4_CursorAfterApplied ==
    (pc = "sync_done" /\ delta_link # NoCursor) =>
        /\ cursorFile = delta_link
        /\ \A id \in IdsIn(deleted) \ IdsIn(items) : StoreOf(id) = {}
        /\ \A id \in IdsIn(items) :
              Current(LastReport(id)) =>
                  StoreOf(id) = ChunkSet(file_to_documents(LastReport(id),
                                                          LastReport(id).etag))

\* The pages of the feed that get_delta is about to read: one per PageSize
\* items, and one page when there is nothing to report.
StartUrl == IF cursorFile # NoCursor THEN cursorFile ELSE RootDelta
PagesOfFeed ==
    LET n == Len(FeedList(StartUrl))
    IN  IF n = 0 THEN 1 ELSE (n + PageSize - 1) \div PageSize
LastPageLink == [kind |-> "delta", pos |-> Len(log), off |-> 0]

GetDeltaStep ==
    \/ pc = "sync_delta" /\ pc' = "sync_delete"
    \/ pc = "ing_delta" /\ pc' = "ing_save"
SaveStep ==
    \/ pc = "sync_save" /\ pc' = "sync_done"
    \/ pc = "ing_save" /\ pc' = "ing_unlink"

\* C5: get_delta reads every page of the feed and returns the deltaLink of
\* the last page (or nothing, if that page carries none), never a page's
\* nextLink; run_sync and run_ingest write to the cursor file what get_delta
\* returned or leave it, so the file never holds a nextLink.
C5_CursorOfLastPage ==
    /\ [][GetDeltaStep =>
            /\ pagesRead' = PagesOfFeed
            /\ delta_link' \in {LastPageLink, NoCursor}]_vars
    /\ [][SaveStep =>
            cursorFile' = IF delta_link # NoCursor THEN delta_link ELSE cursorFile]_vars
    /\ [](cursorFile.kind \in {"none", "delta"})

\* A feed of two pages has been read and its cursor written.
C5_Witness ==
    /\ pc = "sync_done"
    /\ pagesRead >= 2
    /\ delta_link.kind = "delta"
    /\ cursorFile = delta_link
    /\ cursorFile.pos > 0

\* C6: run_ingest changes the store only once the cache file is whole, and
\* no step of it up to the end of extraction (the start, the listing, the
\* load, an exception or a kill there) changes the store, the cursor file or
\* the cache file.
C6_NoMutationBeforeCache ==
    /\ [][(pc \in IngestPcs /\ store' # store) => cacheFile.state = "whole"]_vars
    /\ [][(pc \in {"ing_list", "ing_load"} \/ (pc = "idle" /\ pc' \in IngestPcs))
            => UNCHANGED <<store, cursorFile, cacheFile>>]_vars

\* The listing raised over a store that holds chunks and a cursor file.
C6_Witness ==
    /\ pc = "idle"
    /\ outcome = [op |-> "ingest", kind |-> "raise", at |-> "ing_list", val |-> 0]
    /\ store # EmptyBag
    /\ cursorFile # NoCursor
    /\ cacheFile = NoFile

\* From the clear step to the unlink.
CacheNeeded == {"ing_clear", "ing_embed", "ing_delta", "ing_save", "ing_unlink"}

\* C7: from the clear step to the unlink the cache file is there, whole; it
\* is removed only by the unlink, after the last batch and after the cursor
\* was fetched; a run that ends earlier leaves it for the next run.
C7_CacheUntilDone ==
    /\ [](pc \in CacheNeeded => cacheFile.state = "whole")
    /\ [][(cacheFile.state = "whole" /\ cacheFile'.state # "whole") =>
            /\ pc = "ing_unlink"
            /\ bi >= Len(docs)
            /\ pagesRead >= 1]_vars
    /\ [][(pc \in CacheNeeded /\ pc' = "idle") => cacheFile' = Cached(docs)]_vars

\* The embedding raised after a batch went in, and the cache is still there.
C7_Witness ==
    /\ pc = "idle"
    /\ outcome = [op |-> "ingest", kind |-> "raise", at |-> "ing_embed", val |-> 0]
    /\ cacheFile.state = "whole"
    /\ store # EmptyBag
    /\ BagCardinality(store) < Len(cacheFile.docs)

\* C8: a run_ingest that resumes from the cache left by an interrupted run
\* ends with exactly the chunks of the cached documents in the store, each
\* once, as a run that was not interrupted leaves them.
C8_ResumeEqualsUninterrupted ==
    (pc = "ing_done" /\ fromCache /\ outcome.kind = "return") =>
        store = SeqToBag(docs)

\* C9: a run_ingest that follows a completed run_ingest, with no change of
\* the library since the first one started and the same documents extracted
\* from it, returns the same count and leaves the same number of stored
\* chunks for each item.
C9_IngestIdempotent ==
    (pc = "ing_done" /\ prev.op = "ingest" /\ prev.log = Len(log)
        /\ docs = prev.docs) =>
        /\ outcome.val = prev.val
        /\ CountsOf(store) = prev.counts

\* C10: when run_ingest returns n > 0 the store holds n chunks, and n is the
\* number of chunks extracted from the files that were loaded.
C10_CountIsReturned ==
    (pc = "ing_done" /\ outcome.kind = "return" /\ outcome.val > 0) =>
        /\ BagCardinality(store) = outcome.val
        /\ outcome.val = Len(docs)

\* The store holds of item id what the library holds of it now: the chunks
\* of its current content if it is there, in scope and of a supported type,
\* and nothing otherwise.
Reflects(id) ==
    IF remote[id].exists /\ is_in_scan_folders(FileItem(id))
    THEN StoreOf(id) = ChunkSet(file_to_documents(FileItem(id), remote[id].ver))
    ELSE StoreOf(id) = {}

\* The items changed after the run started and before the cursor it saved.
SkippedBy(cursor) ==
    {log[j].id : j \in {h \in DOMAIN log : startLog < h /\ h <= cursor.pos}}

\* C11: when run_ingest has saved its cursor, every change of the library
\* made since the run listed the files and not after the cursor is already
\* in the store, so that the next run_sync, which starts from the cursor,
\* misses nothing.
C11_IngestCursorSkipsNothing ==
    (pc = "ing_done" /\ outcome.kind = "return" /\ outcome.val > 0
        /\ delta_link # NoCursor /\ cursorFile = delta_link) =>
        \A id \in SkippedBy(cursorFile) : Reflects(id)

\* No call has failed, and the last run read the feed to its end.
CleanAndCurrent ==
    /\ pc \in {"sync_done", "ing_done"}
    /\ outcome.kind = "return"
    /\ faults = 0
    /\ cursorFile.kind = "delta"
    /\ cursorFile.pos = Len(log)

\* C12: after runs of run_ingest and run_sync in which no call failed, the
\* last of which read the feed to its end, the store holds no chunk of a
\* file that was deleted or that now lies outside SP_SCAN_FOLDERS.
C12_NoChunkOfGoneOrOutOfScope ==
    CleanAndCurrent =>
        \A id \in Items :
            (~remote[id].exists \/ ~is_in_scan_folders(FileItem(id))) =>
                StoreOf(id) = {}

\* The segments of a path: the names between the slashes.
RECURSIVE Segments(_)
Segments(p) ==
    IF p = <<>> THEN <<>>
    ELSE LET slashes == {j \in DOMAIN p : p[j] = "/"}
             cut == IF slashes = {} THEN Len(p) + 1
                    ELSE CHOOSE j \in slashes : \A h \in slashes : j <= h
         IN  <<SubSeq(p, 1, cut - 1)>> \o Segments(SubSeq(p, cut + 1, Len(p)))

\* Folder p is folder f or lies below it.
UnderFolder(p, f) ==
    /\ Len(Segments(f)) <= Len(Segments(p))
    /\ SubSeq(Segments(p), 1, Len(Segments(f))) = Segments(f)

InScopeBySegments(p) ==
    scan_folders = <<>> \/ \E j \in DOMAIN scan_folders : UnderFolder(p, scan_folders[j])

\* An item in folder p, as the feed reports it.
ItemIn(p) == ItemOf("a", [ext |-> ".pdf", ver |-> 1, path |-> p], FALSE)

\* The files there are, by where they lie.
Existing == {id \in Items : remote[id].exists}

\* C13: _is_in_scan_folders accepts an item iff SP_SCAN_FOLDERS is empty or
\* the item's folder is a configured folder or lies below one, by whole
\* path segments: with scope P a file in P or P/S is accepted, one in H, in
\* PO or at the root is not; and the bootstrap feed returns the files so
\* accepted.
C13_ScopeBySegments ==
    /\ \A p \in ScopePaths : is_in_scan_folders(ItemIn(p)) <=> InScopeBySegments(p)
    /\ scan_folders = <<>> => \A p \in ScopePaths : is_in_scan_folders(ItemIn(p))
    /\ scan_folders = <<PathP>> =>
          /\ is_in_scan_folders(ItemIn(PathP))
          /\ is_in_scan_folders(ItemIn(PathPS))
          /\ ~is_in_scan_folders(ItemIn(PathH))
          /\ ~is_in_scan_folders(ItemIn(PathPO))
          /\ ~is_in_scan_folders(ItemIn(<<>>))
    /\ (pc = "sync_delete" /\ cursorFile = NoCursor) =>
          IdsIn(items) = {id \in Existing : InScopeBySegments(remote[id].path)}

\* The feed kept the file in P/S and dropped the one in PO.
C13_Witness ==
    /\ pc = "sync_delete"
    /\ scan_folders = <<PathP>>
    /\ remote["a"].exists /\ remote["a"].path = PathPS
    /\ remote["b"].exists /\ remote["b"].path = PathPO
    /\ IdsIn(items) = {"a"}

\* get_delta with no cursor file.
BootstrapDelta ==
    get_delta_loop(RootDelta, TRUE,
        [new_or_modified |-> <<>>, deleted |-> <<>>,
         delta_link |-> NoCursor, pages |-> 0])

\* C14: whatever the scope and wherever the files lie, list_all_files
\* returns a file iff _is_in_scan_folders accepts it, which is iff a
\* get_delta with no cursor reports it as new.
C14_ListingAndFeedAgree ==
    /\ IdsIn(list_all_files({})) = IdsIn(BootstrapDelta.new_or_modified)
    /\ \A id \in Items :
          id \in IdsIn(list_all_files({})) <=>
             (remote[id].exists /\ is_in_scan_folders(FileItem(id)))
    /\ (pc = "ing_load" /\ faults = 0) =>
          IdsIn(items) = IdsIn(BootstrapDelta.new_or_modified)

\* A listing under a scope that takes one file and leaves the other.
C14_Witness ==
    /\ pc = "ing_load"
    /\ faults = 0
    /\ scan_folders = <<PathP, PathH>>
    /\ Existing = Items
    /\ remote["a"].path = PathH
    /\ remote["b"].path = PathPO
    /\ IdsIn(items) = {"a"}

\* The ids list_all_files returns when the requests for the folders in bad
\* raise.
ListedWhen(bad) == IdsIn(list_all_files_result(bad).files)

\* C20 as claimed: whatever the scope, a failed folder request never makes
\* list_all_files raise, and the files of every folder that was scanned are
\* returned.
C20_EveryScanFailureSkipped ==
    \A bad \in SUBSET ScanTargets :
        /\ ~list_all_files_result(bad).raised
        /\ ListedWhen(bad) =
              {id \in Existing :
                  /\ is_in_scan_folders(FileItem(id))
                  /\ (({<<>>} \cup FolderPrefixes(remote[id].path))
                         \cap ScanTargets \cap bad) = {}}

\* C20: with SP_SCAN_FOLDERS set, list_all_files never raises on a failed
\* folder request and returns the files of every configured folder in whose
\* tree no request failed, dropping the configured folder otherwise; with
\* SP_SCAN_FOLDERS empty a failed request raises out of list_all_files.
C20_ConfiguredFolderSkipped ==
    \A bad \in SUBSET ScanTargets :
        IF scan_folders # <<>>
        THEN /\ ~list_all_files_result(bad).raised
             /\ ListedWhen(bad) =
                   {id \in Existing :
                       \E j \in DOMAIN scan_folders :
                          /\ UnderFolder(remote[id].path, scan_folders[j])
                          /\ Walked(scan_folders[j]) \cap bad = {}}
        ELSE /\ list_all_files_result(bad).raised <=> (bad # {})
             /\ bad = {} => ListedWhen(bad) = Existing

\* A listing of two configured folders in which the request for one failed:
\* the other's file was returned.
C20_Witness ==
    /\ pc = "ing_load"
    /\ faults = 1
    /\ outcome = NoOutcome
    /\ scan_folders = <<PathP, PathH>>
    /\ Existing = Items
    /\ remote["a"].path = PathPS
    /\ remote["b"].path = PathH
    /\ IdsIn(items) = {"b"}

\* The items the feed reported both as deleted and as new or modified.
DeletedAndAdded == IdsIn(deleted) \cap IdsIn(items)

\* C15: in a cycle of run_sync the deletion pass comes before the first
\* insert (nothing is loaded or inserted while the deletions are due, and
\* the deletions are counted once the load begins), and an item reported
\* both as deleted and as added ends the cycle with exactly the chunks
\* loaded for it in the store.
C15_DeletionsBeforeInsertions ==
    /\ pc \in {"sync_delta", "sync_delete"} => (docs = <<>> /\ bi = 0)
    /\ (pc \in {"sync_load", "sync_upsert", "sync_add"} /\ deleted # <<>>) =>
          processed >= Len(deleted)
    /\ pc = "sync_done" =>
          \A id \in DeletedAndAdded : StoreBagOf(id) = SeqToBag(DocsOf(id))

\* C16: a run_sync that returns leaves in the cursor file the cursor the
\* feed returned, if it returned one, whatever failures were swallowed on
\* the way; no other step of the cycle writes the file, so that with no
\* cursor returned the file is as it was before the cycle.
C16_CursorSavedRegardless ==
    /\ [][pc = "sync_save" =>
            /\ pc' = "sync_done"
            /\ outcome'.kind = "return"
            /\ cursorFile' = IF delta_link # NoCursor THEN delta_link ELSE cursorFile]_vars
    /\ [][((pc \in SyncPcs /\ pc # "sync_save") \/ pc = "sync_done") =>
            cursorFile' = cursorFile]_vars
    /\ []((pc = "sync_done" /\ delta_link # NoCursor) => cursorFile = delta_link)

\* A cycle returned with a new cursor saved although the delete of a
\* deleted item had failed.
C16_Witness ==
    /\ pc = "sync_done"
    /\ outcome.kind = "return"
    /\ cursorFile = delta_link
    /\ delta_link.kind = "delta"
    /\ delta_link.pos > 0
    /\ \E id \in IdsIn(deleted) : StoreOf(id) # {}

\* run_sync, called by the scheduler, has just returned or raised.
CycleOver == sched = "cycle" /\ pc = "idle"
CycleStarted == sched = "cycle" /\ pc = "sync_delta"

\* C17: an exception of run_sync does not end run_scheduler (the loop ends
\* by an interrupt only); after every cycle, returned or raised, the loop
\* sleeps interval_secs; and unless an interrupt arrives a cycle that is
\* over is followed by the start of another.
C17_LoopSurvivesFailedCycles ==
    /\ [][(sched # "stopped" /\ sched' = "stopped") =>
            (sched = "sleep" \/ outcome'.kind = "interrupt")]_vars
    /\ [][(CycleOver /\ sched' # sched) =>
            (sched' = "sleep" /\ timer' = interval_secs)]_vars
    /\ [][(sched = "sleep" /\ sched' = "run") => timer = 0]_vars
    /\ CycleOver ~> (CycleStarted \/ sched = "stopped")

\* A cycle raised at its insertions, the loop slept its whole interval and
\* is about to call run_sync again.
C17_Witness ==
    /\ sched = "run" /\ timer = 0 /\ pc = "idle"
    /\ outcome.kind = "raise" /\ outcome.at = "sync_add"
    /\ store = EmptyBag /\ cursorFile = NoCursor

C19_NoOverlap ==
    /\ [](sched \in {"run", "sleep", "stopped"} => pc = "idle")
    /\ [][(pc = "idle" /\ pc' # "idle") =>
            (sched = "run" /\ sched' = "cycle" /\ pc' = "sync_delta")]_vars
    /\ [][(sched # "run" /\ sched' = "run") => (sched = "sleep" /\ timer = 0)]_vars
    /\ [][(sched = "sleep" /\ sched' = "sleep") => timer' = timer - 1]_vars
    /\ [][(sched # "sleep" /\ sched' = "sleep") =>
            (CycleOver /\ pc' = "idle" /\ timer' = interval_secs)]_vars

\* A second cycle is under way: the first one saved its cursor and filled the
\* store, and the sleep between them is over.
C19_Witness ==
    /\ sched = "cycle" /\ pc = "sync_delta" /\ timer = 0
    /\ cursorFile # NoCursor /\ store # EmptyBag

\* The files of the list its that fail when those at the indexes in bad do:
\* a file that is gone cannot be downloaded.
FailingIn(its, bad) == bad \cup MustFail(its)

\* C21: load_from_sharepoint returns a list for every list of items and
\* every set of failing files; a failing file contributes no chunk, and every
\* other file contributes, at its place in the order of the list, the chunks
\* that the function returns for the list of that file alone.
C21_FailingFileLeavesOthers ==
    fn.name = "load_from_sharepoint" =>
        fn.result = Flatten([j \in DOMAIN fn.items |->
                               IF j \in FailingIn(fn.items, fn.bad) THEN <<>>
                               ELSE load_from_sharepoint(<<fn.items[j]>>, {})])

\* The first of three files fails and the two after it are loaded.
C21_Witness ==
    /\ fn.name = "load_from_sharepoint"
    /\ Len(fn.items) = 3
    /\ fn.bad = {1}
    /\ Len(fn.result) >= 2
    /\ fn.result[1].id = fn.items[2].id

\* C22 as stated: whatever fails in the store, delete_by_item_ids returns.
C22_NeverPropagates ==
    fn.name = "delete_by_item_ids" => ~fn.result.raised

\* The ids of the list whose lookup and delete succeeded at some place of
\* the list.
Succeeded(item_ids, failed) == {item_ids[j] : j \in DOMAIN item_ids \ failed}

\* C22, amended: delete_by_item_ids raises if and only if the list is not
\* empty and the store cannot be opened, and then the store is as it was; a
\* failing lookup or delete of one id is never propagated: the call returns,
\* the chunks of every id with a succeeding lookup and delete are removed,
\* and no other chunk is.
C22_PerIdFailuresSkipped ==
    fn.name = "delete_by_item_ids" =>
        /\ fn.result.raised <=> (fn.item_ids # <<>> /\ ~fn.opens)
        /\ fn.result.raised => fn.result.store = fn.store
        /\ ~fn.result.raised =>
              fn.result.store =
                 [c \in {d \in DOMAIN fn.store :
                            d.id \notin Succeeded(fn.item_ids, fn.failed)} |-> fn.store[c]]

\* The lookup of the first id failed, and the chunks of the second, later
\* in the list, are removed all the same.
C22_Witness ==
    /\ fn.name = "delete_by_item_ids"
    /\ fn.item_ids = <<"a", "b">> /\ fn.failed = {1} /\ fn.opens
    /\ \E c \in DOMAIN fn.store : c.id = "b"
    /\ \E c \in DOMAIN fn.result.store : c.id = "a"
    /\ \A c \in DOMAIN fn.result.store : c.id # "b"
    /\ ~fn.result.raised

\* The cycle that ran last ended in its read of the change feed.
FeedFailed == outcome.kind = "raise" /\ outcome.at = "sync_delta"

\* C23: when the read of the change feed fails, run_sync ends there with the
\* store, the cursor file and the cache file as they were, and the loop
\* goes on; from then until the next cycle reads the feed nothing moves the
\* cursor file or the store, so that the next read starts from the cursor
\* the failed one started from; and unless the loop is interrupted that next
\* cycle does start.
C23_FeedFailureKeepsCursor ==
    /\ [][(pc = "sync_delta" /\ outcome'.kind = "raise") =>
            /\ pc' = "idle" /\ outcome'.at = "sync_delta"
            /\ UNCHANGED <<diskVars, chain, schedVars>>]_vars
    /\ [][(FeedFailed /\ pc = "idle") =>
            /\ UNCHANGED <<diskVars, chain>>
            /\ pc' # "idle" => (pc' = "sync_delta" /\ StartUrl' = StartUrl)]_vars
    /\ (FeedFailed /\ CycleOver) ~> (CycleStarted \/ sched = "stopped")

\* The second cycle failed in its read of the feed: the loop sleeps, and the
\* store and the cursor are those the first cycle left.
C23_Witness ==
    /\ sched = "sleep" /\ pc = "idle" /\ FeedFailed
    /\ cursorFile # NoCursor /\ store # EmptyBag

\* C24: the number run_sync returns is the number of deleted items of the
\* cycle plus the number of added or modified files that gave at least one
\* chunk.
C24_ReturnsItemsProcessed ==
    (pc = "sync_done" /\ outcome.kind = "return") =>
        outcome.val = Len(deleted) + Cardinality(ItemIdsOf(docs))

\* run_ingest is listing or loading: it found no cache and has not yet
\* decided that there is something to index.
Gathering == pc \in {"ing_list", "ing_load"}

\* C25: run_ingest returns from its listing exactly when the listing is
\* empty and from its loading exactly when no chunk was loaded; it then
\* returns 0; and from its start to that return no step of it has changed
\* the store, the cursor file, the cache file or the chain.
C25_NothingToIndexChangesNothing ==
    /\ [][((pc = "idle" /\ pc' = "ing_list") \/ Gathering) =>
            UNCHANGED <<diskVars, chain>>]_vars
    /\ [][(Gathering /\ outcome'.kind = "return") =>
            /\ outcome'.val = 0 /\ outcome'.op = "ingest" /\ pc' = "ing_done"
            /\ pc = "ing_load" =>
                  \A j \in Downloaded(items) :
                     j \in MustFail(items) \/ faults' # faults
                        \/ file_to_documents(items[j], remote[items[j].id].ver) = <<>>]_vars
    /\ [][(pc = "ing_list" /\ pc' = "ing_load") => items' # <<>>]_vars
    /\ [][(pc = "ing_load" /\ pc' \notin {"ing_load", "idle", "ing_done"}) =>
            docs' # <<>>]_vars

\* The store and the cursor had been filled by an earlier run; a later full
\* ingestion listed no file: it returned 0, and the store and the cursor are
\* still there.
C25_Witness ==
    /\ pc = "ing_done" /\ outcome.kind = "return" /\ outcome.val = 0
    /\ outcome.at = "ing_list"
    /\ store # EmptyBag /\ cursorFile # NoCursor /\ cacheFile = NoFile

\* The statements of a cycle that has not yet returned, and of the run
\* started by hand.
CycleStep ==
    SyncDelta \/ SyncDelete \/ SyncLoad \/ SyncUpsertDelete \/ SyncAdd \/ SyncSave
ManualRunning == manual.pc \in {"delta", "delete", "load", "upsert", "add", "save"}

\* C26: the two writers are not coordinated. Wherever the cycle is, a run
\* can be started by hand and, once started, can take its next step;
\* wherever that run is, a cycle can start and can take its next step. (The
\* interleaving that leaves two copies is the witness.)
C26_WritersUncoordinated ==
    /\ manual.pc = "off" => ENABLED ManualStart
    /\ ManualRunning => ENABLED ManualSync
    /\ pc = "idle" => ENABLED SyncStart
    /\ pc \in SyncPcs => ENABLED CycleStep

\* A cycle and a run started by hand have both read the same change, the
\* modification of a, after an earlier cycle had stored a's first version;
\* no call failed; both deleted the old chunks, then both inserted: every
\* chunk of a's new version is in the store twice, and no old one is left.
C26_Witness ==
    /\ pc = "sync_done" /\ manual.pc = "done" /\ faults = 0
    /\ Len(items) = 1 /\ items[1].id = "a" /\ manual.items = items
    /\ \E c \in DOMAIN store : c.id = "a"
    /\ \A c \in DOMAIN store : c.id = "a" => (c.ver = 2 /\ store[c] = 2)

\* C27: a file whose suffix is one of the documented formats is downloaded
\* and dispatched to its extractor, which makes chunks of it; a file of any
\* other suffix is not downloaded and gives the empty list.
C27_DocumentedFormatsExtracted ==
    fn.name = "file_to_documents" =>
        IF fn.item.ext \in DocumentedExtensions
        THEN fn.downloaded /\ fn.result # <<>>
        ELSE ~fn.downloaded /\ fn.result = <<>>

\* C28: the cursor that was saved is the cursor that is loaded, whatever
\* characters it is made of; a cursor file that is missing, or whose text is
\* no JSON object, loads as the empty cursor, and get_delta then starts from
\* the bootstrap URL of the feed.
C28_CursorRoundTrip ==
    /\ fn.name = "save_delta_token" => fn.result = fn.c
    /\ (fn.name = "_load_delta_token"
          /\ (fn.file = NoText \/ ~json_loads(fn.file).ok \/ ~json_loads(fn.file).object)) =>
            (fn.result = <<>> /\ fn.url = <<"root/delta">>)

\* A cursor with a quote and a backslash in it came back as it was saved,
\* from a text in which both are escaped.
C28_Witness ==
    /\ fn.name = "save_delta_token"
    /\ fn.c = <<"u", "\"", "\\">>
    /\ fn.result = fn.c
    /\ Len(fn.file) = 11

\* C29: a list of n chunks is handed to add_documents in ceil(n / batch_size)
\* calls, none of them empty or of more than batch_size chunks, and the
\* batches put end to end are the list.
C29_BatchesCoverInput ==
    fn.name = "upsert_documents" =>
        /\ Len(fn.result) = (Len(fn.docs) + batch_size - 1) \div batch_size
        /\ \A j \in DOMAIN fn.result :
              Len(fn.result[j]) >= 1 /\ Len(fn.result[j]) <= batch_size
        /\ Flatten(fn.result) = fn.docs

\* A list that does not fill its last batch.
C29_Witness ==
    /\ fn.name = "upsert_documents"
    /\ Len(fn.docs) = batch_size + 1
    /\ Len(fn.result) = 2
    /\ Len(fn.result[1]) = batch_size
    /\ fn.result[2] = <<Len(fn.docs)>>

\* C30: run_sync invalidates the chain at its end if and only if processed
\* is greater than zero, and nowhere else; a cycle whose feed gave no
\* deletion and no added or modified item in scope changes the store at no
\* step and leaves a chain that is built as it is.
C30_InvalidatesIffProcessed ==
    /\ [][(pc = "sync_save" /\ pc' = "sync_done") =>
            /\ processed > 0 => chain' = "none"
            /\ processed = 0 => chain' = chain
            /\ outcome'.val = processed]_vars
    /\ [][(chain = "built" /\ chain' = "none") =>
            (pc = "sync_save" /\ pc' = "sync_done" /\ processed > 0)]_vars
    /\ [][(pc \in SyncPcs \ {"sync_delta"} /\ items = <<>> /\ deleted = <<>>) =>
            (store' = store /\ processed = 0 /\ (chain = "built" => chain' = "built"))]_vars

\* A chain had been built; a cycle then found nothing in its feed and
\* returned 0: the chain is still there, and the store is as a cycle before
\* had filled it.
C30_Witness ==
    /\ pc = "sync_done" /\ outcome.kind = "return" /\ outcome.val = 0
    /\ items = <<>> /\ deleted = <<>>
    /\ chain = "built" /\ store # EmptyBag /\ cursorFile # NoCursor

\* C31: the insert phase of run_ingest starts from an empty collection. When
\* the batch loop is about to make its first add_documents call the store
\* holds no chunk, whatever it held when run_ingest was called.
C31_InsertStartsFromEmpty ==
    (pc = "ing_embed" /\ bi = 0) => store = EmptyBag

\* The feed of this cycle listed id more than once as added or modified.
ListedTwice(id) == Cardinality({j \in DOMAIN items : items[j].id = id}) > 1

\* C32: when a sync cycle in which no call failed has returned, the store
\* holds the chunks of every item its feed listed more than once, as a file
\* of a supported format, exactly once: as many chunks of the id as one
\* extraction of its content gives.
C32_RepeatedIdStoredOnce ==
    (pc = "sync_done" /\ outcome.kind = "return" /\ faults = 0) =>
        \A id \in IdsIn(items) :
            (ListedTwice(id) /\ LastReport(id).ext \in SUPPORTED_EXTENSIONS) =>
                BagCardinality(StoreBagOf(id)) =
                    Len(load_from_sharepoint(<<LastReport(id)>>, {}))

\* How many times id is in a list of items.
TimesIn(its, id) == Cardinality({j \in DOMAIN its : its[j].id = id})

\* C33: whatever the scope, a configured folder below another configured
\* folder included, the list that list_all_files has returned to run_ingest
\* holds no file more than once.
C33_ListedAtMostOnce ==
    pc = "ing_load" => \A id \in Items : TimesIn(items, id) <= 1

\* The feed the next get_delta reads is the one this cycle read.
SameChangeSet ==
    /\ (get_delta(TRUE).new_or_modified)' = items
    /\ (get_delta(TRUE).deleted)' = deleted

\* The store holds one copy of the chunks of every file the cycle's feed
\* listed as added or modified in a supported format.
OneCopyOfTouched ==
    \A id \in IdsIn(items) :
        LastReport(id).ext \in SUPPORTED_EXTENSIONS =>
            BagCardinality(StoreBagOf(id)) =
                Len(load_from_sharepoint(<<LastReport(id)>>, {}))

\* C34: an insertion that fails part-way in a sync cycle ends run_sync with
\* the exception and the cursor file as it was, so that the next cycle reads
\* the same change set if the library has not changed; and when insertions
\* have failed part-way and nothing else has, a cycle that returns leaves in
\* the store exactly one copy of the new chunks of every item it touched.
C34_RetryLeavesOneCopy ==
    /\ [][(pc = "sync_add" /\ bi > 0 /\ pc' = "idle") =>
            /\ outcome'.kind = "raise"
            /\ cursorFile' = cursorFile
            /\ Len(log) = startLog => SameChangeSet]_vars
    /\ []((pc = "sync_done" /\ outcome.kind = "return" /\ faults > 0) =>
            OneCopyOfTouched)

\* run_ingest is called again after a run that was killed.
RerunAfterKill ==
    /\ pc = "idle" /\ outcome.kind = "kill"
    /\ (pc' \in IngestPcs \/ outcome'.kind = "raise")

\* C35: wherever run_ingest was killed, the writing of the cache file
\* included, a rerun gets past its start; no step of it raises unless a call
\* fails; and a rerun that resumes from the cache and returns has returned a
\* positive count and deleted the cache file.
C35_RerunRecovers ==
    /\ [][RerunAfterKill => (outcome'.kind # "raise" /\ pc' \in IngestPcs)]_vars
    /\ [][(pc \in IngestPcs /\ faults' = faults) => outcome'.kind # "raise"]_vars
    /\ []((pc = "ing_done" /\ fromCache /\ outcome.kind = "return") =>
            (outcome.val > 0 /\ cacheFile = NoFile))

====
